---- MODULE Spec2Model ----
(***************************************************************************)
(* State-machine model of the two RainbowBorder canvas widgets:            *)
(*   src/Rainbowborder.py                    (rounded corners, persistent  *)
(*                                            overlay items)               *)
(*   src/Rainbowborder_wo_rounded_corner.py  (plain rectangle)             *)
(* Definitions ending in _wo model the second file.                        *)
(*                                                                         *)
(* Distances along the perimeter are kept exactly as pairs <<a, n>> that   *)
(* stand for  a + n * (pi * corner_radius / 90)  pixels: a is the integer  *)
(* part and n counts 2-degree arc steps (a quarter circle is 45 of them).  *)
(***************************************************************************)
EXTENDS Integers, Sequences, FiniteSets, TLC

(* ------------------------------ bounds -------------------------------- *)
MaxBorder == 2
MaxRadius == 3
MaxDim == 3
MaxFirings == 2
MaxResizes == 2
MaxPersist == 2
MaxGeoDim == 16
MaxPerimeter == 12
MaxOffset == 7
MaxWraps == 2

(* ------------------------ distance arithmetic ------------------------- *)
Dist(a) == <<a, 0>>

Plus(x, y) == <<x[1] + y[1], x[2] + y[2]>>

Minus(x, y) == <<x[1] - y[1], x[2] - y[2]>>

\* 2 * math.pi * r / 4 and math.pi * r / 2: one quarter circle
corner_arc_length == <<0, 45>>

\* arc_progress * arc_length for angle in range(0, 91, 2): (angle / 90) * 45 steps
arc_offset(angle) == <<0, angle \div 2>>

\* d <= 0 for d = a + n * pi * r / 90.  pi < 355/113, and no fraction with a
\* denominator below 16604 lies between pi and 355/113, so for n * r < 16604
\* the comparison with 355/113 decides the comparison with pi.
NonPositive(d, r) ==
    IF d[2] * r = 0 THEN d[1] <= 0
    ELSE d[1] * 90 * 113 + d[2] * r * 355 <= 0

(* ----------------------------- colour map ----------------------------- *)
\* <<color_position, perimeter>>, perimeter <= 24, at which the double
\* product 255 * (...) of lines 156-166 lands just below the integer that
\* exact arithmetic gives, so that int() returns one less (obtained by
\* evaluating the source function over 0 <= color_position < perimeter <= 24).
RoundsBelow ==
    { <<1, 5>>, <<4, 9>>, <<5, 9>>, <<2, 10>>, <<7, 10>>, <<9, 10>>,
      <<3, 15>>, <<4, 15>>, <<7, 15>>, <<8, 15>>, <<11, 15>>, <<13, 15>>,
      <<1, 17>>, <<2, 17>>, <<8, 17>>, <<9, 17>>, <<11, 17>>, <<13, 17>>,
      <<5, 18>>, <<8, 18>>, <<10, 18>>, <<11, 18>>, <<13, 18>>,
      <<4, 20>>, <<14, 20>>, <<18, 20>> }

channel_256(num, color_position, perimeter) == (256 * num) \div perimeter

\* int(255 * x) for x = num / perimeter in [0, 1]
channel(num, color_position, perimeter) ==
    LET exact == (255 * num) \div perimeter
    IN IF <<color_position, perimeter>> \in RoundsBelow THEN exact - 1 ELSE exact

wrap_negative(position, perimeter, offset) ==
    LET s == position + offset
    IN IF s >= 0 THEN s % perimeter ELSE 0 - ((0 - s) % perimeter)

\* (position + offset) % perimeter; Python's % takes the sign of the divisor
wrap(position, perimeter, offset) == (position + offset) % perimeter

\* the branch taken by the if/elif chain on hue = (color_position / perimeter) * 6
hue_sector(color_position, perimeter) ==
    IF 6 * color_position < perimeter THEN 0
    ELSE IF 6 * color_position < 2 * perimeter THEN 1
    ELSE IF 6 * color_position < 3 * perimeter THEN 2
    ELSE IF 6 * color_position < 4 * perimeter THEN 3
    ELSE IF 6 * color_position < 5 * perimeter THEN 4
    ELSE 5

\* _get_rainbow_color for integer position, perimeter > 0 and offset; the
\* result is the triple <<r, g, b>> that the source formats as #rrggbb.
\* (src/Rainbowborder_wo_rounded_corner.py:101-133 is the same function.)
get_rainbow_color(position, perimeter, offset) ==
    LET color_position == wrap(position, perimeter, offset)
        sector == hue_sector(color_position, perimeter)
        \* numerator of hue - sector, over perimeter
        up == 6 * color_position - sector * perimeter
        \* numerator of (sector + 1) - hue, over perimeter
        down == (sector + 1) * perimeter - 6 * color_position
        rise == channel(up, color_position, perimeter)
        fall == channel(down, color_position, perimeter)
    IN CASE sector = 0 -> <<255, rise, 0>>
         [] sector = 1 -> <<fall, 255, 0>>
         [] sector = 2 -> <<0, 255, rise>>
         [] sector = 3 -> <<0, fall, 255>>
         [] sector = 4 -> <<rise, 0, 255>>
         [] OTHER -> <<255, 0, fall>>

(* ------------------- segment routines, rounded variant ----------------- *)
\* One create_line call of a segment routine: the segment, the loop variable
\* (i, or the angle of a corner sample) and the un-offset current_position
\* handed to _get_rainbow_color.
Call(seg, i, pos) == [seg |-> seg, i |-> i, pos |-> pos]

\* for i in range(length), current_position = start + i
StraightCalls(seg, start, length) ==
    IF length <= 0 THEN <<>>
    ELSE [k \in 1..length |-> Call(seg, k - 1, Plus(start, Dist(k - 1)))]

\* for angle in range(0, 91, 2), current_position = start + arc_progress * arc_length
ArcCalls(seg, start) ==
    [k \in 1..46 |-> Call(seg, 2 * (k - 1), Plus(start, arc_offset(2 * (k - 1))))]

\* end - start of a straight segment: (width - corner_radius) - corner_radius
\* for top and bottom, (height - corner_radius) - corner_radius for right and left
straight_length(dim, r) == (dim - r) - r

\* width - 2 * corner_radius, the top_length (bottom_length) that the start
\* positions of the later routines are built from; height - 2 * corner_radius
\* likewise for right_length (left_length)
length_in_start(dim, r) == dim - 2 * r

top_start == Dist(0)

top_right_start(w, r) == Dist(length_in_start(w, r))

right_start(w, r) == Plus(Dist(length_in_start(w, r)), corner_arc_length)

bottom_right_start(w, h, r) ==
    Plus(Plus(Dist(length_in_start(w, r)), corner_arc_length),
         Dist(length_in_start(h, r)))

bottom_start(w, h, r) ==
    Plus(Plus(Plus(Dist(length_in_start(w, r)), corner_arc_length),
              Dist(length_in_start(h, r))), corner_arc_length)

bottom_left_start(w, h, r) ==
    Plus(bottom_start(w, h, r), Dist(length_in_start(w, r)))

left_start(w, h, r) ==
    Plus(Plus(bottom_start(w, h, r), Dist(length_in_start(w, r))), corner_arc_length)

top_left_start(w, h, r) ==
    Plus(left_start(w, h, r), Dist(length_in_start(h, r)))

draw_top_border(w, r) == StraightCalls("top", top_start, straight_length(w, r))

draw_top_right_corner(w, r) == ArcCalls("top_right", top_right_start(w, r))

draw_right_border(w, h, r) ==
    StraightCalls("right", right_start(w, r), straight_length(h, r))

draw_bottom_right_corner(w, h, r) ==
    ArcCalls("bottom_right", bottom_right_start(w, h, r))

draw_bottom_border(w, h, r) ==
    StraightCalls("bottom", bottom_start(w, h, r), straight_length(w, r))

draw_bottom_left_corner(w, h, r) ==
    ArcCalls("bottom_left", bottom_left_start(w, h, r))

draw_left_border(w, h, r) ==
    StraightCalls("left", left_start(w, h, r), straight_length(h, r))

draw_top_left_corner(w, h, r) == ArcCalls("top_left", top_left_start(w, h, r))

\* straight_perimeter + 4 * corner_arc_length
perimeter(w, h, bw, r) ==
    Plus(Dist(2 * (w + h - 4 * r - 2 * bw)), <<0, 4 * 45>>)

\* the eight routines in the order _draw_gradient calls them
Routines(w, h, r) ==
    << draw_top_border(w, r), draw_top_right_corner(w, r),
       draw_right_border(w, h, r), draw_bottom_right_corner(w, h, r),
       draw_bottom_border(w, h, r), draw_bottom_left_corner(w, h, r),
       draw_left_border(w, h, r), draw_top_left_corner(w, h, r) >>

(* ------------------ segment routines, no-corner variant ---------------- *)
top_length_wo(w, bw) == w - bw

right_start_full_width(w, bw) == w

right_start_wo(w, bw) == w - bw

right_length_wo(h) == h

bottom_start_wo(w, h, bw) == (w - bw) + h

bottom_length_wo(w, bw) == w - bw

left_start_wo(w, h, bw) == 2 * (w - bw) + h

left_length_wo(h, bw) == h - bw

draw_top_border_wo(w, bw) == StraightCalls("top", Dist(0), top_length_wo(w, bw))

draw_right_border_wo(w, h, bw) ==
    StraightCalls("right", Dist(right_start_wo(w, bw)), right_length_wo(h))

draw_bottom_border_wo(w, h, bw) ==
    StraightCalls("bottom", Dist(bottom_start_wo(w, h, bw)), bottom_length_wo(w, bw))

draw_left_border_wo(w, h, bw) ==
    StraightCalls("left", Dist(left_start_wo(w, h, bw)), left_length_wo(h, bw))

perimeter_wo(w, h, bw) == 2 * (w + h - 2 * bw)

Routines_wo(w, h, bw) ==
    << draw_top_border_wo(w, bw), draw_right_border_wo(w, h, bw),
       draw_bottom_border_wo(w, h, bw), draw_left_border_wo(w, h, bw) >>

RECURSIVE Concat(_)
Concat(seqs) == IF seqs = <<>> THEN <<>> ELSE Head(seqs) \o Concat(Tail(seqs))

(* ------------------------------- state -------------------------------- *)
VARIABLES
    cfg,                  \* variant, _border_width, _corner_radius (set once in __init__)
    winfo,                \* <<winfo_width(), winfo_height()>> of the host window
    width, height,        \* self.width, self.height (0 before the first redraw)
    position,             \* self.position
    background_image_id,  \* self.background_image_id, 0 for None
    persistent_items,     \* self.persistent_items
    canvas,               \* the canvas display list, bottom item first
    nextId,               \* the id the canvas gives to the next item created
    timers,               \* number of pending after() callbacks
    pc,                   \* "new" in __init__ before _animate(), then "running"
    firings,              \* completed executions of _animate
    resizes,              \* handled <Configure> events
    persists,             \* calls of the three persistent-item methods
    returned,             \* ids handed back by create_persistent_text / _item
    last,                 \* what the most recent operation did
    geo,                  \* result of one pass over the segment routines
    col                   \* arguments and results of colour-map evaluations

vars == << cfg, winfo, width, height, position, background_image_id,
           persistent_items, canvas, nextId, timers, pc, firings, resizes,
           persists, returned, last, geo, col >>

widgetVars == << cfg, winfo, width, height, position, background_image_id,
                 persistent_items, canvas, nextId, timers, pc, firings,
                 resizes, persists, returned, last >>

NoneId == 0

\* step added to self.position by every _animate
AnimationStep == 3

\* a window that is not mapped yet reports winfo_width() = winfo_height() = 1
UnmappedSize == 1

Dims == 1..MaxDim

ItemTypes == {"image"}

RoundedConfigs ==
    { [variant |-> "rounded", border_width |-> bw, corner_radius |-> r] :
        bw \in 1..MaxBorder, r \in 0..MaxRadius }

PlainConfigs ==
    { [variant |-> "plain", border_width |-> bw, corner_radius |-> 0] :
        bw \in 1..MaxBorder }

Idle == [phase |-> "idle"]

NoOp == [op |-> "none", w |-> 0, h |-> 0, offset |-> 0, cleared |-> FALSE,
         drew |-> FALSE, created |-> {}, deleted |-> {}]

Ids(cv) == { cv[k].id : k \in 1..Len(cv) }

\* an item made by one of the create_* canvas methods
Item(id, kind, by, i, pos, per, off) ==
    [id |-> id, kind |-> kind, by |-> by, i |-> i, pos |-> pos, per |-> per,
     off |-> off]

Overlay(id, kind, by) == Item(id, kind, by, 0, Dist(0), Dist(0), 0)

\* create_line for every call of the segment routines, ids in creation order;
\* fill = _get_rainbow_color(pos, per, off)
Lines(calls, nid, per, off) ==
    [k \in 1..Len(calls) |->
        Item(nid + k - 1, "line", calls[k].seg, calls[k].i, calls[k].pos, per, off)]

\* canvas.delete for every id of ids
delete(cv, ids) == SelectSeq(cv, LAMBDA it : it.id \notin ids)

\* canvas.lower(tag): the tagged items move to the bottom of the display
\* list and keep their relative order
lower(cv, ids) ==
    SelectSeq(cv, LAMBDA it : it.id \in ids) \o
    SelectSeq(cv, LAMBDA it : it.id \notin ids)

items_to_delete_all(cv, pers) == Ids(cv)

items_to_delete_none(cv, pers) == {}

\* the items of find_all() that are not in persistent_items
items_to_delete(cv, pers) == { id \in Ids(cv) : id \notin pers }

too_small_strict(w, h, bw) == w < bw \/ h < bw

too_small_both(w, h, bw) == w <= bw /\ h <= bw

\* "Skip drawing if window is too small"
too_small(w, h, bw) == w <= bw \/ h <= bw

Outcome(cv, nid, w, h, off, cleared, drew, created, deleted) ==
    [canvas |-> cv, nextId |-> nid,
     log |-> [w |-> w, h |-> h, offset |-> off, cleared |-> cleared,
              drew |-> drew, created |-> created, deleted |-> deleted]]

perimeter_guard_off(per, r) == FALSE

\* if perimeter <= 0: return
perimeter_guard(per, r) == NonPositive(per, r)

\* RainbowBorder._draw_gradient of src/Rainbowborder.py
draw_gradient(cv, nid, pers, w, h, bw, r, off) ==
    IF too_small(w, h, bw)
    THEN Outcome(cv, nid, w, h, off, FALSE, FALSE, {}, {})
    ELSE LET gone == items_to_delete(cv, pers)
             kept == delete(cv, gone)
             per == perimeter(w, h, bw, r)
         IN IF perimeter_guard(per, r)
            THEN Outcome(kept, nid, w, h, off, TRUE, FALSE, {}, gone)
            ELSE LET new == Lines(Concat(Routines(w, h, r)), nid, per, off)
                     drawn == kept \o new
                 IN Outcome(lower(drawn, Ids(drawn)), nid + Len(new), w, h, off,
                            TRUE, TRUE, Ids(new), gone)

\* RainbowBorder._draw_gradient of src/Rainbowborder_wo_rounded_corner.py
draw_gradient_wo(cv, nid, w, h, bw, off) ==
    IF too_small(w, h, bw)
    THEN Outcome(cv, nid, w, h, off, FALSE, FALSE, {}, {})
    ELSE LET gone == Ids(cv)
             kept == delete(cv, gone)
             per == perimeter_wo(w, h, bw)
         IN IF per <= 0
            THEN Outcome(kept, nid, w, h, off, TRUE, FALSE, {}, gone)
            ELSE LET new == Lines(Concat(Routines_wo(w, h, bw)), nid, Dist(per), off)
                 IN Outcome(kept \o new, nid + Len(new), w, h, off,
                            TRUE, TRUE, Ids(new), gone)

after_twice(pending) == pending + 2

\* self.after(1000 // self.fps, self._animate): one more pending callback
after(pending) == pending + 1

offset_after_increment(p) == p + AnimationStep

\* _animate calls self._draw_gradient() before self.position += 3, so the
\* redraw reads the position not yet advanced
offset_at_redraw(p) == p

advance_wrapped(p) == (p + AnimationStep) % 6

\* self.position += 3
advance(p) == p + AnimationStep

Log(op, log) == [op |-> op] @@ log

(* ---------------------------- initial state --------------------------- *)
\* the fields as __init__ leaves them just before it calls self._animate()
InitWidget(configs) ==
    /\ cfg \in configs
    /\ winfo = <<UnmappedSize, UnmappedSize>>
    /\ width = 0
    /\ height = 0
    /\ position = 0
    /\ background_image_id = NoneId
    /\ persistent_items = {}
    /\ canvas = <<>>
    /\ nextId = 1
    /\ timers = 0
    /\ pc = "new"
    /\ firings = 0
    /\ resizes = 0
    /\ persists = 0
    /\ returned = {}
    /\ last = NoOp

Init ==
    /\ InitWidget(RoundedConfigs \cup PlainConfigs)
    /\ geo = Idle
    /\ col = Idle

(* ------------------------ rounded-corner widget ----------------------- *)
\* the body of _animate: redraw, position += 3, lower("all"), after(...)
AnimateBody(pending) ==
    LET d == draw_gradient(canvas, nextId, persistent_items, winfo[1], winfo[2],
                           cfg.border_width, cfg.corner_radius,
                           offset_at_redraw(position))
    IN /\ width' = winfo[1]
       /\ height' = winfo[2]
       /\ position' = advance(position)
       /\ canvas' = lower(d.canvas, Ids(d.canvas))
       /\ nextId' = d.nextId
       /\ timers' = after(pending)
       /\ firings' = firings + 1
       /\ last' = Log("animate", d.log)
       /\ UNCHANGED << cfg, winfo, background_image_id, persistent_items,
                       resizes, persists, returned, geo, col >>

\* __init__ starts the animation loop: self._animate()
init_animate ==
    /\ cfg.variant = "rounded"
    /\ pc = "new"
    /\ pc' = "running"
    /\ AnimateBody(timers)

\* the event loop runs a pending after() callback
animate ==
    /\ cfg.variant = "rounded"
    /\ pc = "running"
    /\ timers > 0
    /\ firings < MaxFirings
    /\ pc' = pc
    /\ AnimateBody(timers - 1)

\* the window takes the size <<w, h>> and the <Configure> binding runs
on_configure(w, h) ==
    /\ cfg.variant = "rounded"
    /\ pc = "running"
    /\ resizes < MaxResizes
    /\ LET d == draw_gradient(canvas, nextId, persistent_items, w, h,
                              cfg.border_width, cfg.corner_radius, position)
       IN /\ winfo' = <<w, h>>
          /\ width' = w
          /\ height' = h
          /\ canvas' = d.canvas
          /\ nextId' = d.nextId
          /\ last' = Log("configure", d.log)
    /\ resizes' = resizes + 1
    /\ UNCHANGED << cfg, position, background_image_id, persistent_items,
                    timers, pc, firings, persists, returned, geo, col >>

previous_background_kept(bg) == {}

\* if self.background_image_id: the item to delete and to discard
previous_background(bg) == IF bg # NoneId THEN {bg} ELSE {}

OverlayLog(op, created, deleted) ==
    [NoOp EXCEPT !.op = op, !.w = width, !.h = height, !.offset = position,
                 !.created = created, !.deleted = deleted]

set_background_image ==
    /\ cfg.variant = "rounded"
    /\ pc = "running"
    /\ persists < MaxPersist
    /\ LET old == previous_background(background_image_id)
       IN /\ canvas' = Append(delete(canvas, old),
                              Overlay(nextId, "image", "set_background_image"))
          /\ persistent_items' = (persistent_items \ old) \cup {nextId}
          /\ last' = OverlayLog("set_background_image", {nextId},
                                old \cap Ids(canvas))
    /\ background_image_id' = nextId
    /\ nextId' = nextId + 1
    /\ persists' = persists + 1
    /\ UNCHANGED << cfg, winfo, width, height, position, timers, pc, firings,
                    resizes, returned, geo, col >>

create_persistent_text ==
    /\ cfg.variant = "rounded"
    /\ pc = "running"
    /\ persists < MaxPersist
    /\ canvas' = Append(canvas, Overlay(nextId, "text", "create_persistent_text"))
    /\ persistent_items' = persistent_items \cup {nextId}
    /\ last' = OverlayLog("create_persistent_text", {nextId}, {})
    /\ nextId' = nextId + 1
    /\ persists' = persists + 1
    /\ returned' = returned \cup {nextId}
    /\ UNCHANGED << cfg, winfo, width, height, position, background_image_id,
                    timers, pc, firings, resizes, geo, col >>

create_persistent_item(item_type) ==
    /\ cfg.variant = "rounded"
    /\ pc = "running"
    /\ persists < MaxPersist
    /\ canvas' = Append(canvas, Overlay(nextId, item_type, "create_persistent_item"))
    /\ persistent_items' = persistent_items \cup {nextId}
    /\ last' = OverlayLog("create_persistent_item", {nextId}, {})
    /\ nextId' = nextId + 1
    /\ persists' = persists + 1
    /\ returned' = returned \cup {nextId}
    /\ UNCHANGED << cfg, winfo, width, height, position, background_image_id,
                    timers, pc, firings, resizes, geo, col >>

(* -------------------------- no-corner widget -------------------------- *)
\* the body of _animate: redraw, position += 3, after(...)
AnimateBody_wo(pending) ==
    LET d == draw_gradient_wo(canvas, nextId, winfo[1], winfo[2],
                              cfg.border_width, offset_at_redraw(position))
    IN /\ width' = winfo[1]
       /\ height' = winfo[2]
       /\ position' = advance(position)
       /\ canvas' = d.canvas
       /\ nextId' = d.nextId
       /\ timers' = after(pending)
       /\ firings' = firings + 1
       /\ last' = Log("animate", d.log)
       /\ UNCHANGED << cfg, winfo, background_image_id, persistent_items,
                       resizes, persists, returned, geo, col >>

init_animate_wo ==
    /\ cfg.variant = "plain"
    /\ pc = "new"
    /\ pc' = "running"
    /\ AnimateBody_wo(timers)

animate_wo ==
    /\ cfg.variant = "plain"
    /\ pc = "running"
    /\ timers > 0
    /\ firings < MaxFirings
    /\ pc' = pc
    /\ AnimateBody_wo(timers - 1)

on_configure_wo(w, h) ==
    /\ cfg.variant = "plain"
    /\ pc = "running"
    /\ resizes < MaxResizes
    /\ LET d == draw_gradient_wo(canvas, nextId, w, h, cfg.border_width, position)
       IN /\ winfo' = <<w, h>>
          /\ width' = w
          /\ height' = h
          /\ canvas' = d.canvas
          /\ nextId' = d.nextId
          /\ last' = Log("configure", d.log)
    /\ resizes' = resizes + 1
    /\ UNCHANGED << cfg, position, background_image_id, persistent_items,
                    timers, pc, firings, persists, returned, geo, col >>

Next ==
    \/ init_animate
    \/ animate
    \/ \E w \in Dims, h \in Dims : on_configure(w, h)
    \/ set_background_image
    \/ create_persistent_text
    \/ \E item_type \in ItemTypes : create_persistent_item(item_type)
    \/ init_animate_wo
    \/ animate_wo
    \/ \E w \in Dims, h \in Dims : on_configure_wo(w, h)

Spec == Init /\ [][Next]_vars

(* ------------------ one pass over the segment routines ----------------- *)
\* What a segment routine does for one viewport: the start position and the
\* length it computes, the number of lines it draws, and the un-offset
\* positions of its first and last line (its start when it draws nothing).
Row(seg, start, length, calls) ==
    [seg |-> seg, start |-> start, length |-> length, steps |-> Len(calls),
     first |-> IF calls = <<>> THEN start ELSE calls[1].pos,
     last |-> IF calls = <<>> THEN start ELSE calls[Len(calls)].pos]

Rows(w, h, r) ==
    << Row("top", top_start, Dist(straight_length(w, r)), draw_top_border(w, r)),
       Row("top_right", top_right_start(w, r), corner_arc_length,
           draw_top_right_corner(w, r)),
       Row("right", right_start(w, r), Dist(straight_length(h, r)),
           draw_right_border(w, h, r)),
       Row("bottom_right", bottom_right_start(w, h, r), corner_arc_length,
           draw_bottom_right_corner(w, h, r)),
       Row("bottom", bottom_start(w, h, r), Dist(straight_length(w, r)),
           draw_bottom_border(w, h, r)),
       Row("bottom_left", bottom_left_start(w, h, r), corner_arc_length,
           draw_bottom_left_corner(w, h, r)),
       Row("left", left_start(w, h, r), Dist(straight_length(h, r)),
           draw_left_border(w, h, r)),
       Row("top_left", top_left_start(w, h, r), corner_arc_length,
           draw_top_left_corner(w, h, r)) >>

Rows_wo(w, h, bw) ==
    << Row("top", Dist(0), Dist(top_length_wo(w, bw)), draw_top_border_wo(w, bw)),
       Row("right", Dist(right_start_wo(w, bw)), Dist(right_length_wo(h)),
           draw_right_border_wo(w, h, bw)),
       Row("bottom", Dist(bottom_start_wo(w, h, bw)), Dist(bottom_length_wo(w, bw)),
           draw_bottom_border_wo(w, h, bw)),
       Row("left", Dist(left_start_wo(w, h, bw)), Dist(left_length_wo(h, bw)),
           draw_left_border_wo(w, h, bw)) >>

GeoDims == 1..MaxGeoDim

\* two sizing scenarios: the window of the no-corner demo program and a
\* 200 x 200 rounded widget with border width 5 and corner radius 10
ScenarioInputs ==
    { [cfg |-> [variant |-> "plain", border_width |-> 5, corner_radius |-> 0],
       w |-> 300, h |-> 500],
      [cfg |-> [variant |-> "rounded", border_width |-> 5, corner_radius |-> 10],
       w |-> 200, h |-> 200] }

GeoInputs ==
    { [cfg |-> c, w |-> w, h |-> h] :
        c \in RoundedConfigs \cup PlainConfigs, w \in GeoDims, h \in GeoDims }
    \cup ScenarioInputs

GeoInit ==
    /\ \E in \in GeoInputs :
          /\ geo = [phase |-> "input", w |-> in.w, h |-> in.h]
          /\ InitWidget({in.cfg})
    /\ col = Idle

\* the perimeter and the eight segment routines of src/Rainbowborder.py
measure ==
    /\ geo.phase = "input"
    /\ cfg.variant = "rounded"
    /\ geo' = [phase |-> "measured", w |-> geo.w, h |-> geo.h,
               perimeter |-> perimeter(geo.w, geo.h, cfg.border_width,
                                       cfg.corner_radius),
               rows |-> Rows(geo.w, geo.h, cfg.corner_radius)]
    /\ UNCHANGED << widgetVars, col >>

\* the perimeter and the four segment routines of the no-corner file
measure_wo ==
    /\ geo.phase = "input"
    /\ cfg.variant = "plain"
    /\ geo' = [phase |-> "measured", w |-> geo.w, h |-> geo.h,
               perimeter |-> Dist(perimeter_wo(geo.w, geo.h, cfg.border_width)),
               rows |-> Rows_wo(geo.w, geo.h, cfg.border_width)]
    /\ UNCHANGED << widgetVars, col >>

GeoNext == measure \/ measure_wo

GeoSpec == GeoInit /\ [][GeoNext]_vars

(* -------------------- evaluations of the colour map -------------------- *)
ColorInputs ==
    [position : (0 - MaxPerimeter)..(2 * MaxPerimeter),
     perimeter : 1..MaxPerimeter,
     offset : (0 - MaxOffset)..MaxOffset,
     k : (0 - MaxWraps)..MaxWraps]

ColorInit ==
    /\ \E in \in ColorInputs : col = [phase |-> "input"] @@ in
    /\ geo = Idle
    /\ InitWidget({[variant |-> "plain", border_width |-> 1, corner_radius |-> 0]})

\* _get_rainbow_color(position, perimeter, offset) and the same call with
\* position moved by k perimeters
evaluate ==
    /\ col.phase = "input"
    /\ col' = [col EXCEPT !.phase = "done"] @@
              [color |-> get_rainbow_color(col.position, col.perimeter, col.offset),
               moved |-> get_rainbow_color(col.position + col.k * col.perimeter,
                                           col.perimeter, col.offset)]
    /\ UNCHANGED << widgetVars, geo >>

ColorNext == evaluate

ColorSpec == ColorInit /\ [][ColorNext]_vars

(* ======================= properties: colour map ======================= *)
Measured == geo.phase = "measured"

Evaluated == col.phase = "done"

SectorColours ==
    << <<255, 0, 0>>, <<255, 255, 0>>, <<0, 255, 0>>,
       <<0, 255, 255>>, <<0, 0, 255>>, <<255, 0, 255>> >>

\* C5: with offset 0 and a perimeter divisible by 6, the colour at position
\* j * perimeter / 6 is exactly red, yellow, green, cyan, blue, magenta for
\* j = 0, 1, 2, 3, 4, 5.
C5_SectorBoundaries ==
    (Evaluated /\ col.offset = 0 /\ col.perimeter % 6 = 0) =>
        \A j \in 0..5 :
            col.position = j * (col.perimeter \div 6) =>
                col.color = SectorColours[j + 1]

\* the magenta boundary of a perimeter of 12
C5_Witness ==
    /\ Evaluated
    /\ col.offset = 0
    /\ col.perimeter = 12
    /\ col.position = 10
    /\ col.color = <<255, 0, 255>>

(* ================== properties: perimeter parameterization ============= *)
RECURSIVE SumLengths(_, _)
\* the sum of the lengths of the first k rows
SumLengths(rows, k) ==
    IF k = 0 THEN Dist(0) ELSE Plus(SumLengths(rows, k - 1), rows[k].length)

AllLengthsPositive ==
    \A k \in 1..Len(geo.rows) : ~NonPositive(geo.rows[k].length, cfg.corner_radius)

\* C3: in the rounded variant, for width and height of at least
\* 4 * corner_radius + 2 * border_width, the four straight lengths the
\* segment routines use plus four quarter-circle arcs add up to the
\* perimeter that _draw_gradient hands to the colour map.
C3_LengthsSumToPerimeter ==
    ( /\ Measured
      /\ cfg.variant = "rounded"
      /\ geo.w >= 4 * cfg.corner_radius + 2 * cfg.border_width
      /\ geo.h >= 4 * cfg.corner_radius + 2 * cfg.border_width )
    => SumLengths(geo.rows, Len(geo.rows)) = geo.perimeter

\* C10: when every segment length is positive, each routine starts at the
\* sum of the lengths of the segments before it (top at 0), so the position
\* handed to the colour map moves on by at most one unit from the last line
\* of a segment to the first line of the next; for the no-corner widget at
\* 300 x 500 with border width 5 the top is 295 long and the right segment
\* starts at 295.
C10_CumulativeStarts ==
    /\ (Measured /\ AllLengthsPositive) =>
          /\ \A k \in 1..Len(geo.rows) :
                geo.rows[k].start = SumLengths(geo.rows, k - 1)
          /\ \A k \in 1..(Len(geo.rows) - 1) :
                Minus(geo.rows[k + 1].first, geo.rows[k].last) \in {Dist(0), Dist(1)}
    /\ ( /\ Measured
         /\ cfg.variant = "plain"
         /\ cfg.border_width = 5
         /\ geo.w = 300
         /\ geo.h = 500 )
       => /\ geo.rows[1].length = Dist(295)
          /\ geo.rows[1].first = Dist(0)
          /\ geo.rows[2].start = Dist(295)

\* a rounded viewport with all eight segments drawn
C10_Witness ==
    /\ Measured
    /\ cfg.variant = "rounded"
    /\ AllLengthsPositive
    /\ geo.rows[7].steps > 1
    /\ geo.rows[8].start = <<geo.rows[1].steps + geo.rows[3].steps
                              + geo.rows[5].steps + geo.rows[7].steps, 135>>

(* ========================= properties: widget ========================= *)
Redraws == {"animate", "configure"}

Redrawn == last.op \in Redraws

NonPersistent == { id \in Ids(canvas) : id \notin persistent_items }

\* C1: in the rounded-corner widget every id returned by
\* create_persistent_text / create_persistent_item, every member of
\* persistent_items and the current background image item is on the canvas,
\* whatever redraws have happened.
C1_PersistentSurvive ==
    cfg.variant = "rounded" =>
        /\ returned \subseteq Ids(canvas)
        /\ persistent_items \subseteq Ids(canvas)
        /\ background_image_id # NoneId => background_image_id \in Ids(canvas)

\* a drawing redraw that cleared an older frame while an overlay item and a
\* background image were registered
C1_Witness ==
    /\ Redrawn
    /\ last.drew
    /\ last.deleted # {}
    /\ returned # {}
    /\ background_image_id # NoneId

\* C2: after a redraw that draws, the non-persistent items on the canvas are
\* exactly the items that redraw created: the lines of earlier redraws were
\* deleted before it created its first line.
C2_OneGeneration ==
    (Redrawn /\ last.drew) =>
        /\ NonPersistent = last.created
        /\ last.deleted \cap Ids(canvas) = {}
        /\ \A old \in last.deleted, new \in last.created : old < new

\* a drawing redraw of the rounded widget that replaced an older frame
\* around a registered overlay item
C2_Witness ==
    /\ Redrawn
    /\ last.drew
    /\ last.deleted # {}
    /\ persistent_items # {}
    /\ last.op = "configure"

\* C6: position is 0 at creation and always 3 times the number of completed
\* _animate executions: a firing adds 3 even when its redraw is skipped, a
\* resize adds nothing, and the value is never reset or reduced.
C6_PositionCountsFirings == position = 3 * firings

\* two firings whose redraws were skipped, with a resize in between
C6_Witness ==
    /\ firings = 2
    /\ position = 6
    /\ resizes > 0
    /\ last.op = "animate"
    /\ ~last.drew

PerimeterNotPositive(w, h) ==
    IF cfg.variant = "rounded"
    THEN NonPositive(perimeter(w, h, cfg.border_width, cfg.corner_radius),
                     cfg.corner_radius)
    ELSE perimeter_wo(w, h, cfg.border_width) <= 0

\* C7 as stated: a redraw that sees a width or height below twice the border
\* width (or, in the rounded variant, a size whose computed perimeter is not
\* positive) creates no canvas item and deletes none.
C7_NoOpBelowTwiceBorder ==
    ( /\ Redrawn
      /\ \/ last.w < 2 * cfg.border_width
         \/ last.h < 2 * cfg.border_width
         \/ PerimeterNotPositive(last.w, last.h) )
    => (last.created = {} /\ last.deleted = {})

\* C7 amended: a redraw that sees a width or height of at most the border
\* width creates no canvas item and deletes none; at any larger size it
\* deletes every non-persistent item, and it then creates no item when the
\* computed perimeter is not positive.
C7_NoOpAtMostBorder ==
    Redrawn =>
        IF last.w <= cfg.border_width \/ last.h <= cfg.border_width
        THEN last.created = {} /\ last.deleted = {} /\ ~last.cleared
        ELSE /\ last.cleared
             /\ NonPersistent = last.created
             /\ PerimeterNotPositive(last.w, last.h) => last.created = {}

\* a resize to at most the border width, skipped with a drawn frame on the canvas
C7_Witness ==
    /\ last.op = "configure"
    /\ last.w <= cfg.border_width
    /\ NonPersistent # {}

\* C8: a redraw, timer- or resize-triggered, that sees a width (or height) of
\* at most the border width creates nothing and deletes nothing: the canvas
\* is as the previous frame left it.
C8_SkipLeavesFrame ==
    [][ ( /\ firings' # firings \/ resizes' # resizes
          /\ last'.w <= cfg.border_width \/ last'.h <= cfg.border_width )
        => (canvas' = canvas /\ nextId' = nextId) ]_vars

\* a timer firing that saw too small a window and left the earlier frame
C8_Witness ==
    /\ last.op = "animate"
    /\ last.w <= cfg.border_width
    /\ NonPersistent # {}
    /\ resizes = 2

BackgroundItems ==
    { canvas[k].id : k \in { j \in 1..Len(canvas) :
                               canvas[j].by = "set_background_image" } }

\* C9: once set_background_image has been called, exactly one background
\* image item is on the canvas, the one of the latest call; its id is
\* background_image_id and a member of persistent_items, and the ids of the
\* replaced images are no longer in persistent_items.
C9_OneBackground ==
    cfg.variant = "rounded" =>
        /\ BackgroundItems =
              (IF background_image_id = NoneId THEN {} ELSE {background_image_id})
        /\ BackgroundItems \subseteq persistent_items
        /\ persistent_items \subseteq (returned \cup BackgroundItems)

\* two set_background_image calls followed by a drawing redraw
C9_Witness ==
    /\ persists = 2
    /\ returned = {}
    /\ background_image_id # NoneId
    /\ Redrawn
    /\ last.drew

(* ===================== properties: animation driver ==================== *)
\* C11: from the end of construction on exactly one _animate callback is
\* pending between callbacks: the constructor's call schedules the first,
\* every firing consumes one and schedules one, a resize schedules and
\* cancels none.
C11_OneTimerPending ==
    /\ pc = "new" => timers = 0
    /\ pc = "running" => timers = 1

\* a resize handled after the second execution of _animate
C11_Witness ==
    /\ firings = 2
    /\ last.op = "configure"
    /\ timers = 1

\* the lines a redraw created
CreatedLines == { k \in 1..Len(canvas) : canvas[k].id \in last.created }

\* C12: a firing redraws before it adds 3 to position: the n-th execution of
\* _animate (the first one inside the constructor) draws with offset
\* 3 * (n - 1), and a resize after n executions draws with offset 3 * n.
C12_OffsetOfRedraw ==
    /\ last.op = "animate" => last.offset = 3 * (firings - 1)
    /\ last.op = "configure" => last.offset = 3 * firings
    /\ Redrawn => \A k \in CreatedLines : canvas[k].off = last.offset

\* the second execution of _animate drawing a frame with offset 3
C12_Witness ==
    /\ last.op = "animate"
    /\ firings = 2
    /\ last.drew
    /\ \E k \in CreatedLines : canvas[k].off = 3

BorderLines ==
    { k \in 1..Len(canvas) :
        canvas[k].by \notin {"set_background_image", "create_persistent_text",
                             "create_persistent_item"} }

\* C13: the colour map is never called with a perimeter <= 0: every line on
\* the canvas was coloured with a positive perimeter, because a redraw whose
\* computed perimeter is not positive returns before any segment routine.
C13_PerimeterPositive ==
    /\ \A k \in BorderLines : ~NonPositive(canvas[k].per, cfg.corner_radius)
    /\ (Redrawn /\ PerimeterNotPositive(last.w, last.h)) => last.created = {}

\* a redraw that passed the size guard, cleared an older frame and returned
\* at the perimeter guard
C13_Witness ==
    /\ Redrawn
    /\ last.cleared
    /\ ~last.drew
    /\ last.deleted # {}

(* ================ properties: traversal and stacking order ============== *)
RECURSIVE StepsBefore(_, _)
StepsBefore(rows, k) ==
    IF k = 0 THEN 0 ELSE StepsBefore(rows, k - 1) + rows[k].steps

\* C14: in the no-corner widget, for width and height above the border
\* width, one redraw passes the integers 0 .. perimeter - 1 to the colour
\* map, each once: the four segment lengths add up to the perimeter.
C14_OnePassOverPerimeter ==
    ( /\ Measured
      /\ cfg.variant = "plain"
      /\ geo.w > cfg.border_width
      /\ geo.h > cfg.border_width )
    => /\ SumLengths(geo.rows, Len(geo.rows)) = geo.perimeter
       /\ Dist(StepsBefore(geo.rows, Len(geo.rows))) = geo.perimeter
       /\ geo.rows[Len(geo.rows)].last = Minus(geo.perimeter, Dist(1))

\* C15: in the rounded-corner widget, after a redraw that draws, every line
\* it created lies below every item of persistent_items in the display list.
C15_BorderBelowOverlays ==
    (cfg.variant = "rounded" /\ Redrawn /\ last.drew) =>
        \A k \in CreatedLines, j \in 1..Len(canvas) :
            canvas[j].id \in persistent_items => k < j

====
